---------------------------- MODULE Spec2Model ----------------------------
(***************************************************************************)
(* verify_token.py: a report driver (main) that walks a fixed table of     *)
(* (label, address) entries and, for each entry, asks check_account        *)
(* whether the address exists on DevNet and on MainnetBeta, printing the   *)
(* result and, for DevNet accounts, the owning program.                    *)
(*                                                                         *)
(* The program's state is the state of main's frame (loop position, the    *)
(* names bound at lines 47 and 51, standard output, the exit code), the    *)
(* requests it has posted and the response requests.post has handed back.  *)
(* The RPC endpoints are the environment: every post is answered by any    *)
(* response of a finite set, by a failure, or never.                       *)
(***************************************************************************)
EXTENDS Integers, Sequences, FiniteSets, TLC

(***************************************************************************)
(* JSON values as json.loads builds them: None, int, str, list, dict.      *)
(***************************************************************************)
JNull == [t |-> "null"]
JInt(n) == [t |-> "int", n |-> n]
JStr(s) == [t |-> "str", s |-> s]
JList(q) == [t |-> "list", q |-> q]
JObj(m) == [t |-> "obj", m |-> m]

\* The dict with no key, and dicts with one and two keys.
NoKeys == [k \in {} |-> JNull]
Dict0 == JObj(NoKeys)
Dict1(k, v) == JObj(k :> v)
Dict2(k1, v1, k2, v2) == JObj(k1 :> v1 @@ k2 :> v2)

\* The element of a one-element set. Only({ F(x) : x \in {e} }) is F(e), with
\* e evaluated once.
Only(S) == CHOOSE x \in S : TRUE

\* A name no value has been bound to yet.
Unbound == [t |-> "unbound"]

\* Python's `key in d`: a record [raised, v]. A dict tests its keys, a list
\* its elements; None and int are not iterable (TypeError).
PyIn(key, d) ==
    CASE d.t = "obj" -> [raised |-> FALSE, v |-> key \in DOMAIN d.m]
      [] d.t = "list" -> [raised |-> FALSE,
                          v |-> \E i \in 1..Len(d.q) : d.q[i] = JStr(key)]
      [] d.t \in {"null", "int"} -> [raised |-> TRUE, v |-> FALSE]

\* Python's `d[key]` for a str key: a record [raised, v]. A dict without the
\* key raises KeyError; None, int, str and list raise TypeError.
PyGet(d, key) ==
    IF d.t = "obj" /\ key \in DOMAIN d.m
    THEN [raised |-> FALSE, v |-> d.m[key]]
    ELSE [raised |-> TRUE, v |-> JNull]

\* Python's truth value of a JSON value.
Truthy(v) ==
    CASE v.t = "null" -> FALSE
      [] v.t = "int" -> v.n # 0
      [] v.t = "str" -> v.s # ""
      [] v.t = "list" -> v.q # <<>>
      [] v.t = "obj" -> DOMAIN v.m # {}

\* Python's str() of a value inside an f-string (line 59), for the values an
\* owner takes in this model.
PyStr(v) ==
    CASE v.t = "str" -> v.s
      [] v.t = "null" -> "None"
      [] v.t = "int" -> ToString(v.n)


(***************************************************************************)
(* What requests.post (line 22) hands back: it raises (transport failure), *)
(* or returns a response whose body is not JSON, or one whose body parses  *)
(* to a JSON value. NoResponse: nothing has come back.                     *)
(***************************************************************************)
NoResponse == [k |-> "none", body |-> JNull]
TransportFailure == [k |-> "raise", body |-> JNull]
NotJson == [k |-> "text", body |-> JNull]
Json(body) == [k |-> "json", body |-> body]

\* Lines 10-20: the URL and the JSON-RPC envelope of a call.
url(network) ==
    IF network = "devnet"
    THEN "https://api." \o network \o ".solana.com"
    ELSE "https://api.mainnet-beta.solana.com"

payload(address) ==
    [jsonrpc |-> "2.0", id |-> 1, method |-> "getAccountInfo",
     params |-> <<address, [encoding |-> "base64"]>>]

\* Lines 10 and 22 gone wrong: the address is put into the URL.
post_to_address_url(address, network) ==
    [address |-> address, network |-> network,
     url |-> url(network) \o "/" \o address, json |-> payload(address)]

\* Line 22: the request a call posts, with the arguments of the call.
post(address, network) ==
    [address |-> address, network |-> network,
     url |-> url(network), json |-> payload(address)]

\* An exception raised at a source line, and a normal return of the tuple
\* (exists, raw).
Raise(line) == [raised |-> TRUE, line |-> line, exists |-> FALSE, raw |-> Unbound]
Return(exists, raw) == [raised |-> FALSE, line |-> 0, exists |-> exists, raw |-> raw]

\* Line 25 gone wrong: an `error` key counts only when there is no result.
error_branch_after_result(data) ==
    LET has == PyIn("error", data)
    IN  IF has.raised THEN has
        ELSE [raised |-> FALSE, v |-> has.v /\ ~PyIn("result", data).v]

\* Line 25: `"error" in data`.
error_branch(data) == PyIn("error", data)

\* Line 28: `value is not None`.
is_not_none(value) == value.t # "null"

\* Lines 22-28: what a call does with what post handed back.
check_account(address, network, resp) ==
    IF resp.k = "raise" THEN Raise(22)
    ELSE IF resp.k = "text" THEN Raise(23)
    ELSE
      LET data == resp.body
          hasError == error_branch(data)
      IN  IF hasError.raised THEN Raise(25)
          ELSE IF hasError.v
          THEN LET e == PyGet(data, "error")
               IN  IF e.raised THEN Raise(26) ELSE Return(FALSE, e.v)
          ELSE LET r == PyGet(data, "result")
               IN  IF r.raised THEN Raise(28)
                   ELSE LET v == PyGet(r.v, "value")
                        IN  IF v.raised THEN Raise(28)
                            ELSE Return(is_not_none(v.v), r.v)

(***************************************************************************)
(* main: the table (lines 32-38) and the text it prints.                   *)
(***************************************************************************)
tokens ==
    << [name |-> "USDC (current)",
        address |-> "4k3Dyjzvzp8eMZWUXbBCjEvwSkkk59S5iCNLY3QrkX6R"],
       [name |-> "RAY",
        address |-> "4k3Dyjzvzp8eMZWUXbBCjEvwSkkk59S5iCNLY3QrkX6R"],
       [name |-> "SOL",
        address |-> "So11111111111111111111111111111111111111112"],
       [name |-> "DevNet USDC (known)",
        address |-> "Gh9ZwEmdLJ8DscKNTkTqPbNwLNNBjuSzaG9Vp2KGtKJr"],
       [name |-> "DevNet USDC (alt)",
        address |-> "4zMMC9srt5Ri5X14GAgXhaHii3GnPAEERYPJgZJDncDU"] >>

\* A run of the model walks the first MaxEntries entries of tokens.
MaxEntries == 4

\* Line 43: tokens.items(), as far as the model walks it.
items ==
    SubSeq(tokens, 1, IF MaxEntries < Len(tokens) THEN MaxEntries ELSE Len(tokens))

\* Line 60: the SPL Token Program address owners are compared with.
TokenProgram == "TokenkegQfeZyiNwAJbNbGKPFXCWuBvf9Ss623VQ5DA"

\* A printed line: what it is and its text (the emoji markers left out).
Line(kind, text) == [kind |-> kind, text |-> text]

Title == Line("title", "VERIFICACION DE TOKENS EN DEVNET")
Rule == Line("rule", "==================================================")
EntryLine(name, address) == Line("entry", name \o ": " \o address)
Found(exists) == IF exists THEN "EXISTS" ELSE "NOT FOUND"
DevNetLine(exists) == Line("devnet", "   DevNet: " \o Found(exists))
MainnetLine(exists) == Line("mainnet", "   Mainnet: " \o Found(exists))
OwnerLine(owner) == Line("owner", "   Owner: " \o PyStr(owner))
SplLine == Line("verdict", "   Owned by SPL Token Program")
DifferentLine == Line("verdict", "   Different owner")

(***************************************************************************)
(* main's frame as a record f, and each stretch of main between two        *)
(* blocking calls as a function from frames to frames.                     *)
(*   pc        "start", "loop" (line 43), "post_devnet" / "post_mainnet"   *)
(*             (blocked in requests.post, line 22), "recv_devnet" /        *)
(*             "recv_mainnet" (post has come back), "done", "crashed"      *)
(*   idx       position of the loop in tokens                              *)
(*   out       standard output                                             *)
(*   requests  the requests posted, in order; received: how many of them   *)
(*             have come back                                              *)
(*   response  what the last post handed back, until the call consumes it  *)
(*   exit_code -1 while running, then the process's exit status            *)
(*   crashAt   the line that raised the uncaught exception, else 0         *)
(* exists_devnet .. result_mainnet are the names of lines 47 and 51. They  *)
(* are rebound in every iteration before they are read; line 43 shows them *)
(* as not bound (FALSE, Unbound).                                          *)
(***************************************************************************)
Frame0 ==
    [pc |-> "start", idx |-> 1, out |-> <<>>,
     exists_devnet |-> FALSE, result_devnet |-> Unbound,
     exists_mainnet |-> FALSE, result_mainnet |-> Unbound,
     requests |-> <<>>, received |-> 0, response |-> NoResponse,
     exit_code |-> -1, crashAt |-> 0]

\* The exception gone wrong: it is caught around the call and the check
\* counts as not found.
Crash_caught(f, line) ==
    IF f.pc = "recv_devnet"
    THEN [f EXCEPT !.result_devnet = JNull,
                   !.out = f.out \o <<Line("devnet", "   DevNet: NOT FOUND")>>,
                   !.requests = Append(f.requests,
                       [address |-> f.requests[Len(f.requests)].address,
                        network |-> "mainnet-beta",
                        url |-> url("mainnet-beta"),
                        json |-> f.requests[Len(f.requests)].json]),
                   !.response = NoResponse,
                   !.pc = "post_mainnet"]
    ELSE [f EXCEPT !.result_mainnet = JNull,
                   !.out = f.out \o <<Line("mainnet", "   Mainnet: NOT FOUND")>>,
                   !.response = NoResponse,
                   !.idx = f.idx + 1, !.pc = "loop"]

\* An uncaught exception raised at `line`: traceback, exit status 1.
Crash(f, line) ==
    [f EXCEPT !.pc = "crashed", !.exit_code = 1, !.crashAt = line,
              !.response = NoResponse]

\* Lines 40-41.
main_title(f) ==
    [f EXCEPT !.out = f.out \o <<Title, Rule>>, !.pc = "loop"]

\* The return of main gone wrong: the exit status tells whether the last
\* DevNet account was found.
exit_status_by_findings(f) == IF f.exists_devnet THEN 0 ELSE 1

\* Lines 65-66: main returns and the process exits 0.
exit_status(f) == 0

\* Line 47 gone wrong: the call is given the label.
devnet_call_by_name(e) == post(e.name, "devnet")

\* Line 47: the DevNet call of an entry, up to its post.
devnet_call(e) == post(e.address, "devnet")

\* Line 43 onwards: the next entry's header (line 44) and the DevNet call
\* up to its post (line 47 -> 22); after the last entry main returns and
\* the process exits 0.
main_loop(f) ==
    IF f.idx > Len(items)
    THEN [f EXCEPT !.pc = "done", !.exit_code = exit_status(f),
                   !.exists_devnet = FALSE, !.result_devnet = Unbound,
                   !.exists_mainnet = FALSE, !.result_mainnet = Unbound]
    ELSE LET e == items[f.idx]
         IN  [f EXCEPT !.out = f.out \o <<EntryLine(e.name, e.address)>>,
                       !.exists_devnet = FALSE, !.result_devnet = Unbound,
                       !.exists_mainnet = FALSE, !.result_mainnet = Unbound,
                       !.requests = Append(f.requests, devnet_call(e)),
                       !.pc = "post_devnet"]

\* Line 22: requests.post comes back with resp.
post_returns(f, resp) ==
    [f EXCEPT !.response = resp, !.received = f.received + 1,
              !.pc = IF f.pc = "post_devnet" THEN "recv_devnet" ELSE "recv_mainnet"]

\* Lines 47-51 gone wrong: a DevNet check that does not find the account is
\* posted again.
devnet_returned_retry(f, r) ==
    LET e == items[f.idx]
    IN  IF r.raised THEN Crash(f, r.line)
        ELSE IF ~r.exists
        THEN [f EXCEPT !.requests = Append(f.requests, post(e.address, "devnet")),
                       !.response = NoResponse,
                       !.pc = "post_devnet"]
        ELSE [f EXCEPT !.exists_devnet = r.exists, !.result_devnet = r.raw,
                       !.out = f.out \o <<DevNetLine(r.exists)>>,
                       !.requests = Append(f.requests, post(e.address, "mainnet-beta")),
                       !.response = NoResponse,
                       !.pc = "post_mainnet"]

\* Lines 47-51, r being what the DevNet call returned or raised: the
\* exception goes up, or the names are bound, the DevNet line is printed and
\* the Mainnet call runs up to its post (line 51 -> 22).
devnet_returned(f, r) ==
    LET e == items[f.idx]
    IN  IF r.raised THEN Crash(f, r.line)
        ELSE [f EXCEPT !.exists_devnet = r.exists, !.result_devnet = r.raw,
                       !.out = f.out \o <<DevNetLine(r.exists)>>,
                       !.requests = Append(f.requests, post(e.address, "mainnet-beta")),
                       !.response = NoResponse,
                       !.pc = "post_mainnet"]

\* Lines 60-63 gone wrong: the else is lost.
verdict_without_else(owner) ==
    IF owner = JStr(TokenProgram) THEN <<SplLine, DifferentLine>> ELSE <<DifferentLine>>

\* Lines 60-63: the line that says whether the owner is the Token Program.
verdict(owner) ==
    IF owner = JStr(TokenProgram) THEN <<SplLine>> ELSE <<DifferentLine>>

\* Line 54 gone wrong: `exists_devnet and` is lost, result_devnet["value"]
\* is read whatever the call returned.
devnet_value_unguarded(exists_devnet, result_devnet) ==
    [skip |-> FALSE, value |-> PyGet(result_devnet, "value")]

\* Line 54: `exists_devnet and result_devnet["value"]`; the subscript is
\* evaluated only when exists_devnet is true.
devnet_value(exists_devnet, result_devnet) ==
    IF ~exists_devnet
    THEN [skip |-> TRUE, value |-> [raised |-> FALSE, v |-> JNull]]
    ELSE [skip |-> FALSE, value |-> PyGet(result_devnet, "value")]

\* Lines 54-63: the lines the owner block prints, or the line that raises.
\* [raised, line, lines]
owner_block(exists_devnet, result_devnet) ==
    LET none == [raised |-> FALSE, line |-> 0, lines |-> <<>>]
        guard == devnet_value(exists_devnet, result_devnet)
    IN  IF guard.skip THEN none
        ELSE LET value == guard.value
             IN  IF value.raised THEN [none EXCEPT !.raised = TRUE, !.line = 54]
                 ELSE IF ~Truthy(value.v) THEN none
                 ELSE LET account_data == value.v
                          has == PyIn("owner", account_data)
                      IN  IF has.raised THEN [none EXCEPT !.raised = TRUE, !.line = 57]
                          ELSE IF ~has.v THEN none
                          ELSE LET owner == PyGet(account_data, "owner")
                               IN  IF owner.raised
                                   THEN [none EXCEPT !.raised = TRUE, !.line = 58]
                                   ELSE [none EXCEPT !.lines =
                                           <<OwnerLine(owner.v)>> \o verdict(owner.v)]

\* Lines 22-28 of the DevNet call, then lines 47-51.
main_devnet(f) ==
    Only({ devnet_returned(f, r) :
             r \in {check_account(items[f.idx].address, "devnet", f.response)} })

\* Lines 54 and 56 gone wrong: the owner block reads the Mainnet result.
owner_block_of_mainnet(f) == owner_block(f.exists_mainnet, f.result_mainnet)

\* Line 54 gone wrong: the owner block asks for both accounts to exist.
owner_block_if_both(f) ==
    owner_block(f.exists_devnet /\ f.exists_mainnet, f.result_devnet)

\* Lines 54 and 56: the owner block reads the DevNet result.
owner_block_of(f) == owner_block(f.exists_devnet, f.result_devnet)

\* Lines 54-63 and back to line 43, b being what the owner block printed or
\* raised.
owner_block_done(g, b) ==
    IF b.raised THEN Crash(g, b.line)
    ELSE [g EXCEPT !.out = g.out \o b.lines, !.idx = g.idx + 1, !.pc = "loop"]

\* Lines 51-63, r being what the Mainnet call returned or raised: the
\* exception goes up, or the names are bound, the Mainnet line is printed
\* and the owner block runs.
mainnet_returned(f, r) ==
    IF r.raised THEN Crash(f, r.line)
    ELSE Only({ owner_block_done(g, b) :
                  g \in {[f EXCEPT !.exists_mainnet = r.exists,
                                   !.result_mainnet = r.raw,
                                   !.out = f.out \o <<MainnetLine(r.exists)>>,
                                   !.response = NoResponse]},
                  b \in {owner_block_of(
                           [f EXCEPT !.exists_mainnet = r.exists,
                                     !.result_mainnet = r.raw])} })

\* Lines 22-28 of the Mainnet call, then lines 51-63.
main_mainnet(f) ==
    Only({ mainnet_returned(f, r) :
             r \in {check_account(items[f.idx].address, "mainnet-beta", f.response)} })

(***************************************************************************)
(* The responses the endpoints give in this model.                         *)
(***************************************************************************)
SystemProgram == "11111111111111111111111111111111"

\* getAccountInfo's `result`: a context and the account (or null).
Result(value) == Dict2("context", Dict1("slot", JInt(1)), "value", value)
Account(owner) == Dict2("lamports", JInt(1), "owner", owner)
Ownerless == Dict1("lamports", JInt(1))

RpcErrorBody == Dict1("error", Dict2("code", JInt(-32602), "message", JStr("Invalid param")))
\* An error whose payload looks like a result, beside a result.
RpcErrorWithResult ==
    Dict2("error", Result(Account(JStr(TokenProgram))),
          "result", Result(Account(JStr(TokenProgram))))
NotFoundBody == Dict1("result", Result(JNull))
ExistsBody(value) == Dict1("result", Result(value))

\* The responses of a run of main: one of each kind main tells apart.
Responses ==
    { TransportFailure, NotJson,
      Json(RpcErrorBody), Json(RpcErrorWithResult), Json(NotFoundBody),
      Json(ExistsBody(Account(JStr(TokenProgram)))),
      Json(ExistsBody(Account(JStr(SystemProgram)))),
      Json(ExistsBody(Ownerless)),
      Json(ExistsBody(Dict0)),
      Json(ExistsBody(JInt(5))),
      Json(Dict0) }

(***************************************************************************)
(* The state: main's frame, and three records of the environment.          *)
(*   answers   what the endpoints answered to the checks of the entries    *)
(*             whose address occurs more than once in tokens, kept until   *)
(*             the last entry with that address is done                    *)
(*   twin      a second run of main, stepped together with the first: its  *)
(*             frame f, and the entry `at` whose Mainnet check it had      *)
(*             answered otherwise, else 0 (only in the specifications      *)
(*             that compare two runs)                                      *)
(*   calls     the calls of check_account made on their own (only in       *)
(*             SpecCalls)                                                  *)
(***************************************************************************)
VARIABLES pc, idx, out, exists_devnet, result_devnet, exists_mainnet,
          result_mainnet, requests, received, response, exit_code, crashAt,
          answers, twin, calls

frame == <<pc, idx, out, exists_devnet, result_devnet, exists_mainnet,
           result_mainnet, requests, received, response, exit_code, crashAt>>

vars == <<frame, answers, twin, calls>>

\* The state as a frame, and the state after a stretch of main.
Cur ==
    [pc |-> pc, idx |-> idx, out |-> out,
     exists_devnet |-> exists_devnet, result_devnet |-> result_devnet,
     exists_mainnet |-> exists_mainnet, result_mainnet |-> result_mainnet,
     requests |-> requests, received |-> received, response |-> response,
     exit_code |-> exit_code, crashAt |-> crashAt]

Is(f) ==
    /\ pc = f.pc
    /\ idx = f.idx
    /\ out = f.out
    /\ exists_devnet = f.exists_devnet
    /\ result_devnet = f.result_devnet
    /\ exists_mainnet = f.exists_mainnet
    /\ result_mainnet = f.result_mainnet
    /\ requests = f.requests
    /\ received = f.received
    /\ response = f.response
    /\ exit_code = f.exit_code
    /\ crashAt = f.crashAt

Become(f) ==
    /\ pc' = f.pc
    /\ idx' = f.idx
    /\ out' = f.out
    /\ exists_devnet' = f.exists_devnet
    /\ result_devnet' = f.result_devnet
    /\ exists_mainnet' = f.exists_mainnet
    /\ result_mainnet' = f.result_mainnet
    /\ requests' = f.requests
    /\ received' = f.received
    /\ response' = f.response
    /\ exit_code' = f.exit_code
    /\ crashAt' = f.crashAt

NoAnswers == [k \in {} |-> NoResponse]
NoTwin == [f |-> [pc |-> "none"], at |-> 0]

\* Entry i shares its address with another entry of the table.
Duplicated(i) ==
    \E j \in 1..Len(items) : j # i /\ items[j].address = items[i].address

\* The answer to the pending check of entry i is recorded.
Record(a, i, network, resp) ==
    IF Duplicated(i) THEN (<<i, network>> :> resp) @@ a ELSE a

\* At line 43 before entry k: the answers no entry from k on shares the
\* address of are forgotten.
Forget(a, k) ==
    LET keep == { key \in DOMAIN a :
                    \E j \in k..Len(items) :
                       items[j].address = items[key[1]].address }
    IN  [key \in keep |-> a[key]]

Pending == IF pc = "post_devnet" THEN "devnet" ELSE "mainnet-beta"

Init ==
    /\ Is(Frame0)
    /\ answers = NoAnswers
    /\ twin = NoTwin
    /\ calls = <<>>

PrintTitle ==
    /\ pc = "start"
    /\ Become(main_title(Cur))
    /\ UNCHANGED <<answers, twin, calls>>

LoopHeader ==
    /\ pc = "loop"
    /\ Become(main_loop(Cur))
    /\ answers' = Forget(answers, idx)
    /\ UNCHANGED <<twin, calls>>

\* The endpoint answers the pending post (or the post fails).
PostReturns ==
    /\ pc \in {"post_devnet", "post_mainnet"}
    /\ \E resp \in Responses :
          /\ Become(post_returns(Cur, resp))
          /\ answers' = Record(answers, idx, Pending, resp)
    /\ UNCHANGED <<twin, calls>>

ReturnDevnet ==
    /\ pc = "recv_devnet"
    /\ Become(main_devnet(Cur))
    /\ UNCHANGED <<answers, twin, calls>>

ReturnMainnet ==
    /\ pc = "recv_mainnet"
    /\ Become(main_mainnet(Cur))
    /\ UNCHANGED <<answers, twin, calls>>

Next ==
    \/ PrintTitle
    \/ LoopHeader
    \/ PostReturns
    \/ ReturnDevnet
    \/ ReturnMainnet

Spec == Init /\ [][Next]_vars

\* A run whose posts are answered by well-formed responses only, one of
\* each kind: an RPC error, "not found", an account.
WellFormedResponses ==
    { Json(RpcErrorBody), Json(NotFoundBody),
      Json(ExistsBody(Account(JStr(TokenProgram)))) }

PostReturnsWellFormed ==
    /\ pc \in {"post_devnet", "post_mainnet"}
    /\ \E resp \in WellFormedResponses :
          /\ Become(post_returns(Cur, resp))
          /\ answers' = Record(answers, idx, Pending, resp)
    /\ UNCHANGED <<twin, calls>>

\* The interpreter keeps running main; nothing makes an endpoint answer.
Runs == PrintTitle \/ LoopHeader \/ ReturnDevnet \/ ReturnMainnet

FairSpec ==
    /\ Init
    /\ [][PrintTitle \/ LoopHeader \/ ReturnDevnet \/ ReturnMainnet
            \/ PostReturnsWellFormed]_vars
    /\ WF_vars(Runs)

(***************************************************************************)
(* Two runs of main side by side. Both take every step together; they are  *)
(* answered alike except where the specification lets the answers differ.  *)
(***************************************************************************)
\* The stretch of main that runs next from frame f.
main(f) ==
    CASE f.pc = "start" -> main_title(f)
      [] f.pc = "loop" -> main_loop(f)
      [] f.pc = "recv_devnet" -> main_devnet(f)
      [] f.pc = "recv_mainnet" -> main_mainnet(f)
      [] OTHER -> f

\* requests.post comes back in frame f, if f is blocked in it.
answer(f, resp) ==
    IF f.pc \in {"post_devnet", "post_mainnet"} THEN post_returns(f, resp) ELSE f

\* An RPC error: a JSON body with an `error` key.
IsRpcError(resp) ==
    resp.k = "json" /\ resp.body.t = "obj" /\ "error" \in DOMAIN resp.body.m

\* A response check_account returns from: an RPC error, or a result with a
\* value.
Returns(resp) ==
    /\ resp.k = "json"
    /\ resp.body.t = "obj"
    /\ \/ "error" \in DOMAIN resp.body.m
       \/ /\ "result" \in DOMAIN resp.body.m
          /\ resp.body.m["result"].t = "obj"
          /\ "value" \in DOMAIN resp.body.m["result"].m

InitTwin ==
    /\ Is(Frame0)
    /\ answers = NoAnswers
    /\ twin = [f |-> Frame0, at |-> 0]
    /\ calls = <<>>

RunBoth ==
    /\ pc \in {"start", "loop", "recv_devnet", "recv_mainnet"}
    /\ Become(main(Cur))
    /\ twin' = [twin EXCEPT !.f = main(twin.f)]
    /\ UNCHANGED <<answers, calls>>

\* Where the first run is answered with an RPC error, the second is
\* answered with the same error or with "not found".
AnswerErrorOrNotFound ==
    /\ pc \in {"post_devnet", "post_mainnet"}
    /\ \E resp \in Responses :
          /\ Become(post_returns(Cur, resp))
          /\ \E other \in IF IsRpcError(resp) THEN {resp, Json(NotFoundBody)} ELSE {resp} :
                twin' = [twin EXCEPT !.f = answer(twin.f, other)]
    /\ UNCHANGED <<answers, calls>>

SpecErrorTwin ==
    InitTwin /\ [][RunBoth \/ AnswerErrorOrNotFound]_vars

\* The two runs are answered alike, except that one Mainnet check that
\* returns in the first run may be answered in the second by any other
\* response it returns from.
AnswerDevnetAlike ==
    /\ pc = "post_devnet"
    /\ \E resp \in Responses :
          /\ Become(post_returns(Cur, resp))
          /\ twin' = [twin EXCEPT !.f = answer(twin.f, resp)]
    /\ UNCHANGED <<answers, calls>>

AnswerMainnetAlike ==
    /\ pc = "post_mainnet"
    /\ \E resp \in Responses :
          /\ Become(post_returns(Cur, resp))
          /\ twin' = [twin EXCEPT !.f = answer(twin.f, resp)]
    /\ UNCHANGED <<answers, calls>>

AnswerMainnetOtherwise ==
    /\ pc = "post_mainnet"
    /\ twin.at = 0
    /\ \E resp \in Responses, other \in Responses :
          /\ Returns(resp)
          /\ Returns(other)
          /\ other # resp
          /\ Become(post_returns(Cur, resp))
          /\ twin' = [f |-> answer(twin.f, other), at |-> idx]
    /\ UNCHANGED <<answers, calls>>

SpecMainnetTwin ==
    InitTwin /\ [][RunBoth \/ AnswerDevnetAlike \/ AnswerMainnetAlike
                     \/ AnswerMainnetOtherwise]_vars

(***************************************************************************)
(* check_account on its own: up to MaxCalls calls, each with any address   *)
(* and network of Addresses and Networks, answered by any response of      *)
(* AnyResponse. A call is recorded with its arguments, the request it      *)
(* posted, the response, and what it returned or raised.                   *)
(***************************************************************************)
MaxCalls == 2

Addresses ==
    { tokens[1].address, tokens[3].address, "not-a-base58-address!" }

Networks == { "devnet", "mainnet-beta" }

AnyBody ==
    { RpcErrorBody, RpcErrorWithResult,
      Dict1("error", JNull),
      Dict2("error", JStr("rate limited"), "result", JNull),
      NotFoundBody,
      ExistsBody(Account(JStr(TokenProgram))),
      ExistsBody(Account(JStr(SystemProgram))),
      ExistsBody(Ownerless),
      ExistsBody(Dict0),
      ExistsBody(JInt(0)),
      ExistsBody(JInt(5)),
      Dict0,
      Dict1("result", JNull),
      Dict1("result", Dict0),
      Dict1("result", JInt(1)),
      JNull, JInt(1), JList(<<>>), JList(<<JStr("error")>>) }

AnyResponse == { TransportFailure, NotJson } \cup { Json(b) : b \in AnyBody }

Call ==
    /\ Len(calls) < MaxCalls
    /\ \E address \in Addresses, network \in Networks, resp \in AnyResponse :
          calls' = Append(calls,
                     [address |-> address, network |-> network,
                      request |-> post(address, network),
                      response |-> resp,
                      ret |-> check_account(address, network, resp)])
    /\ UNCHANGED <<frame, answers, twin>>

SpecCalls == Init /\ [][Call]_vars

(***************************************************************************)
(* Reading the report: the block of the i-th entry printed in o is its     *)
(* header and the lines up to the next header.                             *)
(***************************************************************************)
Headers(o) == { p \in 1..Len(o) : o[p].kind = "entry" }

HeaderAt(o, i) ==
    CHOOSE p \in Headers(o) : Cardinality({ q \in Headers(o) : q <= p }) = i

Block(o, i) ==
    SubSeq(o, HeaderAt(o, i),
           IF i < Cardinality(Headers(o)) THEN HeaderAt(o, i + 1) - 1 ELSE Len(o))

\* The lines of kind k in a sequence of lines.
Of(lines, k) == SelectSeq(lines, LAMBDA l : l.kind = k)

\* A `result` whose `value` is an account with an `owner` field.
HasOwner(result) ==
    /\ result.t = "obj"
    /\ "value" \in DOMAIN result.m
    /\ result.m["value"].t = "obj"
    /\ "owner" \in DOMAIN result.m["value"].m

OwnerOf(result) == result.m["value"].m["owner"]

\* The lines whose failure is a failure of check_account.
CheckLines == {22, 23, 25, 26, 28}

\* The checks of a whole run, in order: (address, network).
Checks ==
    [k \in 1..(2 * Len(items)) |->
        [address |-> items[(k + 1) \div 2].address,
         network |-> IF k % 2 = 1 THEN "devnet" ELSE "mainnet-beta"]]

\* The entry whose block is the last one printed has had both its checks
\* return: main is back at line 43, or the owner block raised.
EntryChecked ==
    \/ pc = "loop" /\ idx > 1
    \/ pc = "crashed" /\ crashAt \notin CheckLines

\* The last block printed, once the DevNet check of its entry has returned.
DevnetKnown == result_devnet # Unbound
LastBlock == Block(out, Cardinality(Headers(out)))

(***************************************************************************)
(* C3. While no check has failed, the requests posted are the checks of    *)
(* the table in order - DevNet then Mainnet of entry 1, of entry 2, ... -  *)
(* each once; a run that exits 0 has posted all of them; and at most one   *)
(* request is ever unanswered, exactly when main is blocked in post.       *)
(***************************************************************************)
C3_TwoSequentialChecksPerEntry ==
    /\ Len(requests) <= Len(Checks)
    /\ \A k \in 1..Len(requests) :
          /\ requests[k].address = Checks[k].address
          /\ requests[k].network = Checks[k].network
    /\ exit_code = 0 => Len(requests) = Len(Checks) /\ received = Len(requests)
    /\ received <= Len(requests)
    /\ Len(requests) <= received + 1
    /\ (Len(requests) = received + 1) <=> (pc \in {"post_devnet", "post_mainnet"})

C3_Witness ==
    /\ exit_code = 0
    /\ Len(requests) = 2 * Len(items)
    /\ received = 2 * Len(items)

(***************************************************************************)
(* C4 as stated: once the DevNet check of an entry has returned and the    *)
(* run has gone as far as it goes for that entry, the owner line is in     *)
(* the entry's block exactly when the DevNet result exists with an owner   *)
(* field, and then exactly one verdict line follows it.                    *)
(***************************************************************************)
OwnerLinesAsClaimed ==
    LET owners == Of(LastBlock, "owner")
        verdicts == Of(LastBlock, "verdict")
        shown == exists_devnet /\ HasOwner(result_devnet)
    IN  /\ (Len(owners) = 1) <=> shown
        /\ Len(owners) <= 1
        /\ shown =>
             /\ owners[1] = OwnerLine(OwnerOf(result_devnet))
             /\ verdicts = << IF OwnerOf(result_devnet) = JStr(TokenProgram)
                              THEN SplLine ELSE DifferentLine >>
        /\ ~shown => verdicts = <<>>

C4_Original ==
    (DevnetKnown /\ (EntryChecked \/ pc = "crashed")) => OwnerLinesAsClaimed

(***************************************************************************)
(* C4 amended: the same, for every entry whose Mainnet check has returned. *)
(***************************************************************************)
C4_OwnerLinesOnceMainnetReturned ==
    (DevnetKnown /\ EntryChecked) => OwnerLinesAsClaimed

C4_Witness ==
    /\ pc = "loop"
    /\ exists_devnet
    /\ HasOwner(result_devnet)
    /\ OwnerOf(result_devnet) # JStr(TokenProgram)
    /\ Of(LastBlock, "verdict") = <<DifferentLine>>

(***************************************************************************)
(* C6 as stated: when the Mainnet check of the wrapped-SOL entry is        *)
(* answered with an account owned by the Token Program, the call returns   *)
(* exists = True and the entry's block gets "Owned by SPL Token Program".  *)
(***************************************************************************)
WrappedSol == "So11111111111111111111111111111111111111112"

\* A response that says: the account exists, owned by the Token Program.
ExistsOwnedByTokenProgram(resp) ==
    /\ resp.k = "json"
    /\ resp.body.t = "obj"
    /\ "error" \notin DOMAIN resp.body.m
    /\ "result" \in DOMAIN resp.body.m
    /\ HasOwner(resp.body.m["result"])
    /\ OwnerOf(resp.body.m["result"]) = JStr(TokenProgram)

SolOnMainnet ==
    /\ pc = "recv_mainnet"
    /\ items[idx].address = WrappedSol
    /\ ExistsOwnedByTokenProgram(response)

Printed(line) == \E p \in 1..Len(LastBlock') : LastBlock'[p] = line

C6_Original ==
    [][SolOnMainnet => exists_mainnet' /\ Printed(SplLine)]_vars

(***************************************************************************)
(* C6 amended: in that case the call returns exists = True and the block   *)
(* gets "Mainnet: EXISTS"; it gets "Owned by SPL Token Program" exactly    *)
(* when the entry's DevNet account exists with the Token Program as owner. *)
(***************************************************************************)
C6_SolOwnedLineFollowsDevnet ==
    [][SolOnMainnet =>
         /\ exists_mainnet'
         /\ Printed(MainnetLine(TRUE))
         /\ Printed(SplLine) <=>
              /\ exists_devnet
              /\ HasOwner(result_devnet)
              /\ OwnerOf(result_devnet) = JStr(TokenProgram)]_vars

C6_Witness ==
    /\ pc = "loop"
    /\ idx > 1
    /\ items[idx - 1].address = WrappedSol
    /\ exists_mainnet
    /\ HasOwner(result_mainnet)
    /\ OwnerOf(result_mainnet) = JStr(TokenProgram)
    /\ LastBlock = << EntryLine("SOL", WrappedSol), DevNetLine(TRUE),
                      MainnetLine(TRUE), OwnerLine(JStr(TokenProgram)), SplLine >>

(***************************************************************************)
(* C7. A check that fails - the post raises, the body is not JSON, or the  *)
(* body has neither an `error` key nor a `result` with a `value` - ends    *)
(* the run with exit status 1 at once: that step prints nothing and posts  *)
(* nothing, and nothing is printed or posted ever after. When it was the   *)
(* Mainnet check, the block of the entry is its header and its DevNet      *)
(* line and nothing else.                                                  *)
(***************************************************************************)
Fatal(resp) ==
    \/ resp.k \in {"raise", "text"}
    \/ /\ resp.k = "json"
       /\ \/ resp.body.t # "obj"
          \/ /\ "error" \notin DOMAIN resp.body.m
             /\ ~ /\ "result" \in DOMAIN resp.body.m
                  /\ resp.body.m["result"].t = "obj"
                  /\ "value" \in DOMAIN resp.body.m["result"].m

FailedCheckEndsRun ==
    (pc \in {"recv_devnet", "recv_mainnet"} /\ Fatal(response)) =>
        /\ pc' = "crashed"
        /\ exit_code' = 1
        /\ crashAt' \in CheckLines
        /\ out' = out
        /\ requests' = requests

NothingAfterCrash ==
    pc = "crashed" => UNCHANGED <<pc, out, requests, exit_code>>

FailedCheckState ==
    (pc = "crashed" /\ crashAt \in CheckLines) =>
        /\ exit_code # 0
        /\ received = Len(requests)
        /\ Len(requests) \in {2 * idx - 1, 2 * idx}
        /\ Len(requests) = 2 * idx - 1 =>
              LastBlock = << EntryLine(items[idx].name, items[idx].address) >>
        /\ Len(requests) = 2 * idx =>
              LastBlock = << EntryLine(items[idx].name, items[idx].address),
                             DevNetLine(exists_devnet) >>

C7_FailedCheckAborts ==
    /\ []FailedCheckState
    /\ [][FailedCheckEndsRun /\ NothingAfterCrash]_vars

C7_Witness ==
    /\ pc = "crashed"
    /\ crashAt = 28
    /\ idx = 2
    /\ Len(requests) = 4
    /\ exists_devnet
    /\ HasOwner(result_devnet)
    /\ Len(LastBlock) = 2

(***************************************************************************)
(* C8 as stated: two entries with the same address that are both done      *)
(* have the same lines below their headers.                                *)
(***************************************************************************)
Done(i) == i < idx \/ pc = "done"

SameAddress(i, j) ==
    /\ i \in 1..Len(items)
    /\ j \in 1..Len(items)
    /\ i < j
    /\ items[i].name # items[j].name
    /\ items[i].address = items[j].address

C8_Original ==
    \A i, j \in 1..Len(items) :
        (SameAddress(i, j) /\ Done(j)) => Tail(Block(out, i)) = Tail(Block(out, j))

(***************************************************************************)
(* C8 amended: two entries with the same address post the same requests,   *)
(* and when the endpoints answer the checks of both alike, they have the   *)
(* same lines below their headers.                                         *)
(***************************************************************************)
SameAnswers(i, j) ==
    \A n \in {"devnet", "mainnet-beta"} :
        /\ <<i, n>> \in DOMAIN answers
        /\ <<j, n>> \in DOMAIN answers
        /\ answers[<<i, n>>] = answers[<<j, n>>]

C8_SameAddressSameAnswersSameLines ==
    \A i, j \in 1..Len(items) :
        SameAddress(i, j) =>
            /\ \A k \in {2 * j - 1, 2 * j} :
                  k <= Len(requests) => requests[k] = requests[k - 2 * (j - i)]
            /\ (Done(j) /\ SameAnswers(i, j)) =>
                  Tail(Block(out, i)) = Tail(Block(out, j))

C8_Witness ==
    /\ pc = "loop"
    /\ idx = 3
    /\ SameAddress(1, 2)
    /\ SameAnswers(1, 2)
    /\ Len(Block(out, 2)) = 5
    /\ Tail(Block(out, 1)) = Tail(Block(out, 2))

(***************************************************************************)
(* C1. A call answered with a JSON-RPC body - a dict with an `error` key,  *)
(* or with a `result` dict that has a `value` - returns: (False, the value *)
(* of `error`) when there is an `error` key, whatever else there is;       *)
(* else (False, result) when result.value is null; else (True, result).    *)
(* So exists = True comes only with a result whose value is not null.      *)
(***************************************************************************)
HasValue(body) ==
    /\ "result" \in DOMAIN body.m
    /\ body.m["result"].t = "obj"
    /\ "value" \in DOMAIN body.m["result"].m

JsonRpcBody(resp) ==
    /\ resp.k = "json"
    /\ resp.body.t = "obj"
    /\ "error" \in DOMAIN resp.body.m \/ HasValue(resp.body)

C1_ThreeOutcomes ==
    \A k \in 1..Len(calls) :
        LET c == calls[k]
            body == c.response.body
        IN  /\ JsonRpcBody(c.response) =>
                 /\ ~c.ret.raised
                 /\ "error" \in DOMAIN body.m =>
                       c.ret.exists = FALSE /\ c.ret.raw = body.m["error"]
                 /\ ("error" \notin DOMAIN body.m /\ body.m["result"].m["value"] = JNull) =>
                       c.ret.exists = FALSE /\ c.ret.raw = body.m["result"]
                 /\ ("error" \notin DOMAIN body.m /\ body.m["result"].m["value"] # JNull) =>
                       c.ret.exists = TRUE /\ c.ret.raw = body.m["result"]
            /\ (~c.ret.raised /\ c.ret.exists) =>
                 /\ JsonRpcBody(c.response)
                 /\ c.ret.raw = body.m["result"]
                 /\ c.ret.raw.m["value"] # JNull

C1_Witness ==
    /\ Len(calls) = 2
    /\ calls[1].response = Json(RpcErrorWithResult)
    /\ calls[1].ret = Return(FALSE, RpcErrorWithResult.m["error"])
    /\ calls[2].response = Json(ExistsBody(Dict0))
    /\ calls[2].ret = Return(TRUE, Result(Dict0))

(***************************************************************************)
(* C2. The request of a call goes to the URL of its network - DevNet or    *)
(* MainnetBeta - whatever the address: two calls for the same network go   *)
(* to the same URL; and the address is the first element of params and is  *)
(* nowhere else in the request.                                            *)
(***************************************************************************)
C2_UrlFixedByNetwork ==
    \A k \in 1..Len(calls) :
        LET c == calls[k]
        IN  /\ c.network = "devnet" => c.request.url = "https://api.devnet.solana.com"
            /\ c.network = "mainnet-beta" =>
                  c.request.url = "https://api.mainnet-beta.solana.com"
            /\ \A l \in 1..Len(calls) :
                  calls[l].network = c.network => calls[l].request.url = c.request.url
            /\ c.request.json =
                  [jsonrpc |-> "2.0", id |-> 1, method |-> "getAccountInfo",
                   params |-> <<c.address, [encoding |-> "base64"]>>]

C2_Witness ==
    /\ Len(calls) = 2
    /\ calls[1].network = "mainnet-beta"
    /\ calls[2].network = "mainnet-beta"
    /\ calls[1].address # calls[2].address
    /\ calls[1].request.url = calls[2].request.url
    /\ calls[1].request.json.params[1] = calls[1].address

(***************************************************************************)
(* C5. An RPC error is not fatal. The DevNet call returns exists = False,  *)
(* main prints "DevNet: NOT FOUND" and posts the Mainnet check; after an   *)
(* entry whose DevNet account was not found main prints the Mainnet line   *)
(* and no owner line; a Mainnet error gives "Mainnet: NOT FOUND" and no    *)
(* failure of the check. And a run answered with errors prints, posts and  *)
(* ends exactly as the run answered with "not found" in their place.       *)
(***************************************************************************)
ErrorStep ==
    /\ (pc = "recv_devnet" /\ IsRpcError(response)) =>
          /\ ~exists_devnet'
          /\ out' = Append(out, Line("devnet", "   DevNet: NOT FOUND"))
          /\ pc' = "post_mainnet"
          /\ Len(requests') = Len(requests) + 1
    /\ (pc = "recv_mainnet" /\ IsRpcError(response)) =>
          /\ crashAt' \notin CheckLines
          /\ Len(out') > Len(out)
          /\ out'[Len(out) + 1] = Line("mainnet", "   Mainnet: NOT FOUND")
    /\ (pc = "recv_mainnet" /\ ~exists_devnet /\ Returns(response)) =>
          /\ pc' = "loop"
          /\ Len(out') = Len(out) + 1
          /\ out'[Len(out')].kind = "mainnet"

SameReport ==
    /\ twin.f.out = out
    /\ twin.f.pc = pc
    /\ twin.f.requests = requests
    /\ twin.f.exit_code = exit_code

C5_ErrorReportedAsNotFound ==
    /\ []SameReport
    /\ [][ErrorStep]_vars

C5_Witness ==
    /\ pc = "loop"
    /\ idx = 3
    /\ twin.f.out = out
    /\ Len(out) = 8
    /\ exists_devnet = FALSE
    /\ IsRpcError(Json(Dict1("error", result_devnet)))
    /\ twin.f.result_devnet = Result(JNull)
    /\ result_mainnet # twin.f.result_mainnet

(***************************************************************************)
(* C10. Two runs answered alike except for one Mainnet check, which        *)
(* returns in both, print the same lines except for the Mainnet line of    *)
(* that entry, post the same requests and end alike.                       *)
(***************************************************************************)
C10_MainnetOnlyItsOwnLine ==
    /\ Len(twin.f.out) = Len(out)
    /\ \A p \in 1..Len(out) :
          twin.f.out[p] # out[p] =>
             /\ out[p].kind = "mainnet"
             /\ twin.f.out[p].kind = "mainnet"
             /\ twin.at # 0
             /\ p = HeaderAt(out, twin.at) + 2
    /\ twin.f.pc = pc
    /\ twin.f.requests = requests
    /\ twin.f.exit_code = exit_code
    /\ twin.f.crashAt = crashAt

C10_Witness ==
    /\ pc = "loop"
    /\ idx = 3
    /\ twin.at = 2
    /\ Block(out, 2)[3] = MainnetLine(TRUE)
    /\ Block(twin.f.out, 2)[3] = MainnetLine(FALSE)
    /\ Len(Block(out, 2)) = 5
    /\ Block(out, 2)[5] = DifferentLine
    /\ Block(twin.f.out, 2)[5] = DifferentLine

(***************************************************************************)
(* C9. In a run whose posts are answered by well-formed responses only:    *)
(* if every post is answered, the run ends with exit status 0 after both   *)
(* checks of every entry, however many accounts were missing. And while a  *)
(* post is not answered main stays blocked in it: nothing is printed or    *)
(* posted and the run does not end.                                        *)
(***************************************************************************)
Blocked == pc \in {"post_devnet", "post_mainnet"}

Finished ==
    /\ pc = "done"
    /\ exit_code = 0
    /\ idx = Len(items) + 1
    /\ received = 2 * Len(items)

StaysBlocked ==
    (Blocked /\ received' = received) => UNCHANGED <<pc, out, requests, exit_code>>

C9_TerminatesOrBlocks ==
    /\ (Blocked ~> ~Blocked) => <>Finished
    /\ [][StaysBlocked]_vars

C9_Witness ==
    /\ Finished
    /\ Len(Of(out, "devnet")) = Len(items)
    /\ \A p \in 1..Len(out) :
          out[p].kind \in {"devnet", "mainnet"} =>
             out[p].text \in {"   DevNet: NOT FOUND", "   Mainnet: NOT FOUND"}

=============================================================================
